---------------------------- MODULE Spec2Model ----------------------------
(***************************************************************************)
(* A model of the upload orchestration engine of dataverse-uploader:       *)
(* AbstractUploader (core/abstract_uploader.py), DataverseUploader         *)
(* (uploaders/dataverse.py), FileResource (resources/file_resource.py)     *)
(* and UploaderConfig (core/config.py).                                    *)
(*                                                                         *)
(* Strings that the code slices (names, paths) are sequences of one-       *)
(* character strings.  A digest is <<algorithm, content, case>> ("lc" for  *)
(* lower-case hex, "UC" for upper-case hex), the empty string is <<>>.     *)
(***************************************************************************)
EXTENDS Integers, Sequences, FiniteSets, TLC

VARIABLES
    config,                      \* UploaderConfig of the run
    pc,                          \* position of process_requests
    inputs,                      \* the paths given to process_requests
    stack,                       \* pending _process_resource calls / post-processing
    total_files, uploaded_files, skipped_files, failed_files, uploaded_bytes,
    failed_uploads,              \* the retry queue: <<resource, parent_path>>
    existing_files,              \* path index of the catalog
    existing_files_by_checksum,  \* checksum index of the catalog
    attempt, retry_delay, still_failed, retry_pos,
    faults,                      \* environment failures injected so far
    disc,                        \* history: one record per discovered resource
    calls,                       \* history: calls made to the adapter and the server
    remote,                      \* the files the repository lists now
    lk,                          \* the existence lookup applied to one drawn input
    ul,                          \* the upload operation applied to drawn answers
    http                         \* one HTTPClient call and what the server answered

vars == <<config, pc, inputs, stack, total_files, uploaded_files, skipped_files,
          failed_files, uploaded_bytes, failed_uploads, existing_files,
          existing_files_by_checksum, attempt, retry_delay, still_failed,
          retry_pos, faults, disc, calls, remote, lk, ul, http>>

-----------------------------------------------------------------------------
(* Bounds of the model *)

MaxSkip == 2
MaxLimit == 1
MaxFaults == 1
MaxListing == 2
MaxUploads == 2
MaxLoads == 2

-----------------------------------------------------------------------------
(* Strings *)

Slash == "/"
Backslash == "\\"

RECURSIVE lstrip(_, _)
lstrip(s, c) == IF s # <<>> /\ Head(s) = c THEN lstrip(Tail(s), c) ELSE s

RECURSIVE rstrip(_, _)
rstrip(s, c) ==
    IF s # <<>> /\ s[Len(s)] = c THEN rstrip(SubSeq(s, 1, Len(s) - 1), c) ELSE s

strip(s, c) == lstrip(rstrip(s, c), c)

\* str.lower() on the characters the model uses
LowerChar(c) ==
    CASE c = "C" -> "c"
      [] c = "S" -> "s"
      [] c = "V" -> "v"
      [] c = "K" -> "k"
      [] OTHER -> c

lower(s) == [i \in 1..Len(s) |-> LowerChar(s[i])]

endswith(s, suf) ==
    /\ Len(suf) <= Len(s)
    /\ SubSeq(s, Len(s) - Len(suf) + 1, Len(s)) = suf

\* s[:-n]
DropLast(s, n) == SubSeq(s, 1, Len(s) - n)

\* s.replace(a, b) for single characters
replace(s, a, b) == [i \in 1..Len(s) |-> IF s[i] = a THEN b ELSE s[i]]

Contains(s, c) == \E i \in 1..Len(s) : s[i] = c

-----------------------------------------------------------------------------
(* Hashing: FileResource.get_hash and UploaderConfig *)

FixityAlgorithms == {"MD5", "SHA-1", "SHA-256", "SHA-512"}

\* UploaderConfig.get_hash_algorithm_name
get_hash_algorithm_name(fixity) ==
    CASE fixity = "MD5" -> "md5"
      [] fixity = "SHA-1" -> "sha1"
      [] fixity = "SHA-256" -> "sha256"
      [] fixity = "SHA-512" -> "sha512"

\* algorithm.lower().replace("-", "") on the algorithm names that occur
AlgoLower(algorithm) ==
    CASE algorithm \in {"MD5", "md5"} -> "md5"
      [] algorithm \in {"SHA-1", "sha-1", "sha1"} -> "sha1"
      [] algorithm \in {"SHA-256", "sha-256", "sha256"} -> "sha256"
      [] algorithm \in {"SHA-512", "sha-512", "sha512"} -> "sha512"
      [] OTHER -> algorithm

HashlibAlgorithms == {"md5", "sha1", "sha256", "sha512"}

Raise == <<"raise">>

\* FileResource.get_hash: the hex digest, or Raise for a directory or an
\* algorithm hashlib does not know
get_hash(r, algorithm) ==
    IF r.is_dir \/ AlgoLower(algorithm) \notin HashlibAlgorithms
    THEN Raise
    ELSE <<AlgoLower(algorithm), r.content, "lc">>

\* str.lower() of a digest
lowerDigest(d) == IF Len(d) = 3 THEN <<d[1], d[2], "lc">> ELSE d

-----------------------------------------------------------------------------
(* Python dicts: a sequence of entries [key, val] in insertion order *)

HasKey(d, k) == \E i \in 1..Len(d) : d[i].key = k

Get(d, k) == d[CHOOSE i \in 1..Len(d) : d[i].key = k].val

\* d[k] = v: an existing key keeps its place
Put(d, k, v) ==
    IF HasKey(d, k)
    THEN [i \in 1..Len(d) |-> IF d[i].key = k THEN [key |-> k, val |-> v] ELSE d[i]]
    ELSE Append(d, [key |-> k, val |-> v])

-----------------------------------------------------------------------------
(* The remote catalog: DataverseUploader._load_existing_files *)

\* one file_info of the listing -> the path the code builds for it
ListingPath(fi) ==
    IF fi.directoryLabel # <<>>
    THEN fi.directoryLabel \o <<Slash>> \o fi.label
    ELSE fi.label

file_data(fi) ==
    [id |-> fi.id,
     checksum_type |-> fi.checksum_type,
     checksum_value |-> lowerDigest(fi.checksum_value),
     path |-> ListingPath(fi)]

RECURSIVE LoadPaths(_, _)
LoadPaths(ef, files) ==
    IF files = <<>> THEN ef
    ELSE LoadPaths(Put(ef, ListingPath(Head(files)), file_data(Head(files))),
                   Tail(files))

RECURSIVE LoadChecksums(_, _)
LoadChecksums(efc, files) ==
    IF files = <<>> THEN efc
    ELSE LET fd == file_data(Head(files)) IN
         LoadChecksums(IF fd.checksum_value # <<>>
                       THEN Put(efc, fd.checksum_value, fd) ELSE efc,
                       Tail(files))

\* the two indices after _load_existing_files answered with `files`:
\* existing_files keeps its old entries, existing_files_by_checksum is rebuilt
_load_existing_files(ef, files) ==
    [existing_files |-> LoadPaths(ef, files),
     existing_files_by_checksum |-> LoadChecksums(<<>>, files)]

-----------------------------------------------------------------------------
(* Existence lookup: DataverseUploader.get_existing_resource_id *)

tabular_extensions ==
    << <<".", "c", "s", "v">>, <<".", "x", "l", "s", "x">>, <<".", "x", "l", "s">>,
       <<".", "s", "a", "v">>, <<".", "d", "t", "a">>, <<".", "p", "o", "r">>,
       <<".", "s", "a", "s", "7", "b", "d", "a", "t">>,
       <<".", "r", "d", "a", "t", "a">>, <<".", "r", "d", "s">> >>

DotTab == <<".", "t", "a", "b">>

\* f"{parent_path.strip('/')}/{resource.get_name()}".lstrip("/")
RemotePath(parent_path, name) ==
    lstrip(strip(parent_path, Slash) \o <<Slash>> \o name, Slash)

\* the first extension of tabular_extensions that `path` (lower-cased) ends
\* with, 0 when there is none: the loop breaks at the first match
FirstTabularExt(path) ==
    LET hits == {i \in 1..Len(tabular_extensions) :
                    endswith(lower(path), tabular_extensions[i])}
    IN IF hits = {} THEN 0 ELSE CHOOSE i \in hits : \A j \in hits : i <= j

\* path[:-len(ext)] + '.tab', <<>> when the path has no tabular extension
TabPath(path) ==
    LET i == FirstTabularExt(path)
    IN IF i = 0 THEN <<>> ELSE DropLast(path, Len(tabular_extensions[i])) \o DotTab

\* a lookup's answer: the id (0 for None), the check that answered, the
\* algorithm a local hash was computed under ("" for none), and whether
\* the lookup raised
NotFound == [id |-> 0, how |-> "none", hashed |-> "", raised |-> FALSE]

Found(ident, how, hashed) ==
    [id |-> ident, how |-> how, hashed |-> hashed, raised |-> FALSE]

\* the content-hash check run whatever the configuration says
ContentHashLookup_Unguarded(r, efc, verify_checksums) ==
    LET h == get_hash(r, "md5") IN
    IF h = Raise
    THEN [id |-> 0, how |-> "none", hashed |-> "md5", raised |-> TRUE]
    ELSE IF HasKey(efc, lowerDigest(h))
         THEN Found(Get(efc, lowerDigest(h)).id, "hash", "md5")
         ELSE [NotFound EXCEPT !.hashed = "md5"]

\* the third check of get_existing_resource_id, lines 183-191
ContentHashLookup(r, efc, verify_checksums) ==
    IF ~verify_checksums THEN NotFound
    ELSE LET h == get_hash(r, "md5") IN
         IF h = Raise
         THEN [id |-> 0, how |-> "none", hashed |-> "md5", raised |-> TRUE]
         ELSE IF HasKey(efc, lowerDigest(h))
              THEN Found(Get(efc, lowerDigest(h)).id, "hash", "md5")
              ELSE [NotFound EXCEPT !.hashed = "md5"]

\* the second check, lines 156-181: the path with its extension replaced by
\* .tab, then the same on the path with its backslashes turned into slashes
TabLookup(file_path, ef) ==
    LET tab_path == TabPath(file_path)
        normalized_path == replace(file_path, Backslash, Slash)
        norm_tab == TabPath(normalized_path)
    IN IF tab_path # <<>> /\ HasKey(ef, tab_path)
       THEN Found(Get(ef, tab_path).id, "tab", "")
       ELSE IF /\ Contains(file_path, Slash) \/ Contains(file_path, Backslash)
               /\ norm_tab # <<>>
               /\ HasKey(ef, norm_tab)
            THEN Found(Get(ef, norm_tab).id, "tabnorm", "")
            ELSE NotFound

\* the lookup with the content hash consulted before the names
get_existing_resource_id_HashFirst(r, parent_path, ef, efc, verify_checksums) ==
    IF r.is_dir THEN NotFound
    ELSE LET file_path == RemotePath(parent_path, r.name) IN
         IF ContentHashLookup(r, efc, verify_checksums).id # 0
         THEN ContentHashLookup(r, efc, verify_checksums)
         ELSE IF HasKey(ef, file_path)
              THEN Found(Get(ef, file_path).id, "name", "")
              ELSE TabLookup(file_path, ef)

get_existing_resource_id(r, parent_path, ef, efc, verify_checksums) ==
    IF r.is_dir THEN NotFound
    ELSE LET file_path == RemotePath(parent_path, r.name) IN
         IF HasKey(ef, file_path)
         THEN Found(Get(ef, file_path).id, "name", "")
         ELSE IF TabLookup(file_path, ef).id # 0
              THEN TabLookup(file_path, ef)
              ELSE ContentHashLookup(r, efc, verify_checksums)

\* DataverseUploader.verify_checksum: "match", "differ" (also when no record
\* has the id), or "raise" when hashing the local file raises
verify_checksum(r, file_id, ef) ==
    LET hits == {i \in 1..Len(ef) : ef[i].val.id = file_id} IN
    IF hits = {} THEN "differ"
    ELSE LET info == ef[CHOOSE i \in hits : \A j \in hits : i <= j].val
             local_hash == get_hash(r, info.checksum_type)
         IN IF local_hash = Raise THEN "raise"
            ELSE IF lowerDigest(local_hash) = lowerDigest(info.checksum_value)
                 THEN "match" ELSE "differ"

-----------------------------------------------------------------------------
(* Local resources: FileResource *)

\* ASCII order of the characters the model uses, for sorted()
Ascii == <<".", "/", "7", "C", "D", "K", "S", "V", Backslash, "_",
           "a", "b", "c", "d", "e", "h", "i", "k", "l", "n", "o", "p", "r",
           "s", "t", "v", "x", "z">>

CharRank(c) == CHOOSE i \in 1..Len(Ascii) : Ascii[i] = c

RECURSIVE StrLess(_, _)
StrLess(a, b) ==
    IF b = <<>> THEN FALSE
    ELSE IF a = <<>> THEN TRUE
    ELSE IF Head(a) = Head(b) THEN StrLess(Tail(a), Tail(b))
    ELSE CharRank(Head(a)) < CharRank(Head(b))

File(name, content, size) ==
    [name |-> name, is_dir |-> FALSE, content |-> content, size |-> size,
     entries |-> {}]

Dir(name, entries) ==
    [name |-> name, is_dir |-> TRUE, content |-> 0, size |-> 0,
     entries |-> entries]

\* the local filesystem of the runs
Res ==
    <<File(<<"a", ".", "c", "s", "v">>, 1, 3),
      File(<<"b", ".", "t", "x", "t">>, 2, 5),
      File(<<"c", ".", "t", "x", "t">>, 3, 2),
      File(<<"d", ".", "t", "x", "t">>, 1, 3),
      File(<<"e", ".", "t", "x", "t">>, 4, 1),
      Dir(<<"D">>, {7, 8, 9}),
      File(<<".", "h">>, 5, 1),
      File(<<"k", ".", "c", "s", "v">>, 2, 5),
      Dir(<<"s">>, {10}),
      File(<<"b", ".", "t", "x", "t">>, 3, 2)>>

\* a path of the command line that does not exist
Missing == 0

RECURSIVE SortByName(_)
SortByName(ids) ==
    IF ids = {} THEN <<>>
    ELSE LET m == CHOOSE i \in ids :
                    \A j \in ids \ {i} : StrLess(Res[i].name, Res[j].name)
         IN <<m>> \o SortByName(ids \ {m})

\* FileResource.list_resources: sorted, names starting with "." left out
list_resources(rid) ==
    IF ~Res[rid].is_dir THEN <<>>
    ELSE SortByName({i \in Res[rid].entries : Head(Res[i].name) # "."})

-----------------------------------------------------------------------------
(* Upload: DataverseUploader.upload_file and the two strategies *)

\* what the file system and the repository answer during one upload:
\*   size  file.length(): "ok", "fail"
\*   urls  the upload-destination request: "url", "nourl", "e404", "e401", "err"
\*   open  get_input_stream: "ok", "fail"
\*   put   the PUT to the destination: "ok", "err", "e404", "e401"
\*   reg   the registration request: "ok", "fail", "e404", "e401"
\*   add   the add-file request: "ok", "fail", "e401"
\* ("e401": the server answers 401 and HTTPClient raises AuthenticationError,
\* which the handlers of the upload methods catch as any other exception)
\*   landed  a failed add/registration was stored by the repository all the same
Nominal ==
    [size |-> "ok", urls |-> "url", open |-> "ok", put |-> "ok", reg |-> "ok",
     add |-> "ok", landed |-> FALSE]

\* what an upload returned (id, 0 for None), whether it raised, the steps it
\* took ("open" and "close": the input stream of the file is opened and
\* closed; "401": the request before it was answered 401), and whether the
\* repository stored the file
UpResult(ident, raised, net, stored) ==
    [id |-> ident, raised |-> raised, net |-> net, stored |-> stored]

\* lines 223-276: when get_input_stream raises, the except clause returns
\* None, then the finally clause closes a stream that was never bound and
\* the method raises
_upload_file_traditional(new_id, sc) ==
    IF sc.open = "fail" THEN UpResult(0, TRUE, <<"traditional">>, FALSE)
    ELSE IF sc.add = "ok"
    THEN UpResult(new_id, FALSE, <<"traditional", "open", "add", "close">>, TRUE)
    ELSE IF sc.add = "e401"
    THEN UpResult(0, FALSE, <<"traditional", "open", "add", "401", "close">>, FALSE)
    ELSE UpResult(0, FALSE, <<"traditional", "open", "add", "close">>, sc.landed)

\* lines 332-392
_register_uploaded_file(new_id, sc) ==
    IF sc.reg = "ok" THEN UpResult(new_id, FALSE, <<"addFiles">>, TRUE)
    ELSE IF sc.reg = "e401" THEN UpResult(0, FALSE, <<"addFiles", "401">>, FALSE)
    ELSE UpResult(0, FALSE, <<"addFiles">>, sc.landed)

Prepend(net, res) == [res EXCEPT !.net = net \o res.net]

\* `except Exception: return None` around a call
Caught(res) == IF res.raised THEN [res EXCEPT !.raised = FALSE, !.id = 0] ELSE res

\* lines 278-330.  file.length() is read before the try statement; the
\* fallback for a missing url runs inside it, the fallback for a 404 of the
\* destination request runs in the NetworkError handler, outside it; the PUT
\* raises httpx's error, which only the last handler catches, and the
\* file_stream.close() of line 313 is then not reached
_upload_file_direct(new_id, sc) ==
    IF sc.size = "fail" THEN UpResult(0, TRUE, <<>>, FALSE)
    ELSE
    CASE sc.urls = "nourl" ->
            Caught(Prepend(<<"uploadurls">>, _upload_file_traditional(new_id, sc)))
      [] sc.urls = "e404" ->
            Prepend(<<"uploadurls">>, _upload_file_traditional(new_id, sc))
      [] sc.urls = "err" -> UpResult(0, FALSE, <<"uploadurls">>, FALSE)
      [] sc.urls = "e401" -> UpResult(0, FALSE, <<"uploadurls", "401">>, FALSE)
      [] OTHER ->
            IF sc.open = "fail" THEN UpResult(0, FALSE, <<"uploadurls">>, FALSE)
            ELSE IF sc.put = "e401"
                 THEN UpResult(0, FALSE, <<"uploadurls", "open", "put", "401">>, FALSE)
            ELSE IF sc.put # "ok"
                 THEN UpResult(0, FALSE, <<"uploadurls", "open", "put">>, FALSE)
                 ELSE Prepend(<<"uploadurls", "open", "put", "close">>,
                              _register_uploaded_file(new_id, sc))

\* lines 208-221
upload_file(cfg, new_id, sc) ==
    IF cfg.direct_upload THEN _upload_file_direct(new_id, sc)
    ELSE _upload_file_traditional(new_id, sc)

\* an index with the file just stored added to it
Catalogued_Stored(index, up) ==
    IF up.stored
    THEN Append(index, [key |-> <<up.id>>,
                        val |-> [id |-> up.id, checksum_type |-> "MD5",
                                 checksum_value |-> <<>>, path |-> <<>>]])
    ELSE index

\* an index of the catalog after upload_file has run: lines 208-392 assign
\* neither existing_files nor existing_files_by_checksum
Catalogued(index, up) == index

\* the listing entry of a file the repository stored
Stored(r, parent_path, new_id) ==
    [directoryLabel |-> strip(parent_path, Slash), label |-> r.name,
     id |-> new_id, checksum_type |-> "MD5",
     checksum_value |-> <<"md5", r.content, "lc">>]

-----------------------------------------------------------------------------
(* The orchestrator: AbstractUploader._process_resource and below *)

NoUpload == UpResult(0, FALSE, <<>>, FALSE)

\* what one _process_resource call did and returned
Outcome ==
    [fate |-> "none", ret |-> 0, dir_id |-> <<>>, look |-> NotFound,
     verify |-> "na", up |-> NoUpload, uploads |-> 0, lookups |-> 0,
     creates |-> 0, nfaults |-> 0, d_up |-> 0, d_skip |-> 0, d_fail |-> 0,
     d_bytes |-> 0, queued |-> FALSE, push |-> <<>>]

\* an except clause that takes one off failed_files
Failed_Decrements(out) == [out EXCEPT !.fate = "error", !.d_fail = @ - 1, !.ret = 0]

\* an except clause that also puts the resource on the retry queue
Failed_Queued(out) ==
    [out EXCEPT !.fate = "error", !.d_fail = @ + 1, !.ret = 0, !.queued = TRUE]

\* the except clause of _process_resource, lines 284-287
Failed(out) == [out EXCEPT !.fate = "error", !.d_fail = @ + 1, !.ret = 0]

\* the decision with force_new never read
ExistingDecision_NoForceNew(cfg, existing_id, vc) ==
    IF existing_id = 0 THEN "proceed" ELSE "skip"

\* _process_file lines 350-371: "skip" returns the existing id, "proceed"
\* goes on to the list-only check and the upload
ExistingDecision(cfg, existing_id, vc) ==
    IF existing_id = 0 THEN "proceed"
    ELSE IF cfg.verify_checksums
         THEN IF vc = "match" THEN "skip"
              ELSE IF ~cfg.force_new THEN "skip" ELSE "proceed"
         ELSE "skip"

\* the list-only check left out
ListOnlyStop_Never(cfg) == FALSE

\* _process_file lines 373-374: list-only mode stops before the upload
ListOnlyStop(cfg) == cfg.list_only

\* a file uploaded without the existence check
_process_file_Unchecked(cfg, r, look, verified, new_id, env) ==
    LET up == upload_file(cfg, new_id, env.sc)
        o2 == [Outcome EXCEPT !.up = up, !.uploads = 1,
                              !.nfaults = IF env.sc = Nominal THEN 0 ELSE 1]
    IN IF up.raised THEN Failed(o2)
       ELSE IF up.id # 0
       THEN [o2 EXCEPT !.fate = "uploaded", !.d_up = 1, !.d_bytes = r.size,
                       !.ret = up.id]
       ELSE [o2 EXCEPT !.fate = "failed", !.d_fail = 1, !.queued = TRUE]

\* _process_file, lines 323-394.  look is the answer of
\* get_existing_resource_id(file, parent_path) and verified the answer of
\* verify_checksum(file, existing_id), both on the catalog as it is now;
\* env.stat, env.stat2: does file.length() raise before the lookup / after
\* the upload; env.sc: the upload's answers
_process_file(cfg, r, look, verified, new_id, env) ==
    IF env.stat = "raise"
    THEN Failed([Outcome EXCEPT !.nfaults = 1])
    ELSE
    LET vc == IF look.id # 0 /\ cfg.verify_checksums THEN verified ELSE "na"
        o1 == [Outcome EXCEPT !.look = look, !.lookups = 1, !.verify = vc]
    IN
    IF look.raised \/ vc = "raise" THEN Failed(o1)
    ELSE IF ExistingDecision(cfg, look.id, vc) = "skip"
    THEN [o1 EXCEPT !.fate = "skipped", !.d_skip = 1, !.ret = look.id]
    ELSE IF ListOnlyStop(cfg) THEN [o1 EXCEPT !.fate = "listed"]
    ELSE
    LET up == upload_file(cfg, new_id, env.sc)
        o2 == [o1 EXCEPT !.up = up, !.uploads = 1,
                         !.nfaults = IF env.sc = Nominal THEN 0 ELSE 1]
    IN
    IF up.raised THEN Failed(o2)
    ELSE IF up.id # 0
    THEN IF env.stat2 = "raise"
         THEN Failed([o2 EXCEPT !.d_up = 1, !.nfaults = @ + 1])
         ELSE [o2 EXCEPT !.fate = "uploaded", !.d_up = 1, !.d_bytes = r.size,
                         !.ret = up.id]
    ELSE [o2 EXCEPT !.fate = "failed", !.d_fail = 1, !.queued = TRUE]

\* f"{parent_path.rstrip('/')}/{directory.get_name()}"
ChildPath(parent_path, name) == rstrip(parent_path, Slash) \o <<Slash>> \o name

\* DataverseUploader.create_directory, lines 193-206
create_directory(r, parent_path) == ChildPath(parent_path, r.name)

\* a directory whose children are processed whatever recurse_directories says
_process_directory_AlwaysRecurse(cfg, rid, parent_path, look) ==
    LET r == Res[rid]
        created == look.id = 0 /\ ~cfg.list_only
        dir_id == IF created THEN ChildPath(parent_path, r.name) ELSE <<>>
        kids == list_resources(rid)
    IN [Outcome EXCEPT
          !.fate = "dir", !.look = look, !.lookups = 1,
          !.creates = IF created THEN 1 ELSE 0,
          !.dir_id = dir_id,
          !.push = [i \in 1..Len(kids) |->
                      [t |-> "res", r |-> kids[i],
                       parent |-> ChildPath(parent_path, r.name)]]
                   \o (IF dir_id # <<>> /\ ~cfg.list_only
                       THEN <<[t |-> "post", r |-> rid, parent |-> dir_id]>>
                       ELSE <<>>)]

\* _process_directory, lines 289-321
_process_directory(cfg, rid, parent_path, look) ==
    LET r == Res[rid]
        created == look.id = 0 /\ ~cfg.list_only
        dir_id == IF created THEN create_directory(r, parent_path) ELSE <<>>
        kids == list_resources(rid)
        new_parent == ChildPath(parent_path, r.name)
    IN [Outcome EXCEPT
          !.fate = "dir", !.look = look, !.lookups = 1,
          !.creates = IF created THEN 1 ELSE 0,
          !.dir_id = dir_id,
          !.push = IF cfg.recurse_directories
                   THEN [i \in 1..Len(kids) |->
                            [t |-> "res", r |-> kids[i], parent |-> new_parent]]
                        \o (IF dir_id # <<>> /\ ~cfg.list_only
                            THEN <<[t |-> "post", r |-> rid, parent |-> dir_id]>>
                            ELSE <<>>)
                   ELSE <<>>]

\* the limit compared with > for >=
LimitReached_OffByOne(cfg, uploaded) == cfg.max_files # 0 /\ uploaded > cfg.max_files

\* the max-files check of _process_resource, lines 274-277
LimitReached(cfg, uploaded) == cfg.max_files # 0 /\ uploaded >= cfg.max_files

\* the skip count compared with < for <=
SkippedByPolicy_OffByOne(cfg, n) == n < cfg.skip_files

\* the skip check of _process_resource, lines 268-272
SkippedByPolicy(cfg, n) == n <= cfg.skip_files

\* _process_resource, lines 256-287; n is total_files after the increment
_process_resource(cfg, rid, parent_path, n, uploaded, look, verified, new_id, env) ==
    IF SkippedByPolicy(cfg, n)
    THEN [Outcome EXCEPT !.fate = "skip_policy", !.d_skip = 1]
    ELSE IF LimitReached(cfg, uploaded)
    THEN [Outcome EXCEPT !.fate = "stopped"]
    ELSE IF Res[rid].is_dir
    THEN _process_directory(cfg, rid, parent_path, look)
    ELSE _process_file(cfg, Res[rid], look, verified, new_id, env)

-----------------------------------------------------------------------------
(* History *)

NoCalls ==
    [lookup |-> 0, create_directory |-> 0, upload_file |-> 0, add |-> 0,
     uploadurls |-> 0, put |-> 0, addFiles |-> 0, post_process |-> 0,
     load |-> 0, metadata |-> 0, retry_pass |-> 0,
     failed_initial |-> 0, converted |-> 0, reported |-> {},
     validate |-> 0, load_failed |-> {}, close |-> 0, summary |-> 0,
     waits |-> <<>>]

\* the discoveries a queue names
Names(queue) == {queue[i].n : i \in 1..Len(queue)}

Count(net, what) == Cardinality({i \in 1..Len(net) : net[i] = what})

Called(c, out) ==
    [c EXCEPT !.lookup = @ + out.lookups,
              !.create_directory = @ + out.creates,
              !.upload_file = @ + out.uploads,
              !.add = @ + Count(out.up.net, "add"),
              !.uploadurls = @ + Count(out.up.net, "uploadurls"),
              !.put = @ + Count(out.up.net, "put"),
              !.addFiles = @ + Count(out.up.net, "addFiles")]

\* parent: the parent path the resource was processed under; post: the value
\* of total_files when post_process_directory was called for it, 0 for never
Discovered(rid, parent_path, cfg, uploaded, out) ==
    [res |-> rid, parent |-> parent_path, post |-> 0, fate |-> out.fate, existing |-> out.look.id,
     verify |-> out.verify, ret |-> out.ret,
     lookups |-> out.lookups, uploads |-> out.uploads,
     after_limit |-> (cfg.max_files # 0 /\ uploaded >= cfg.max_files),
     up_called |-> out.uploads = 1, up_id |-> out.up.id,
     up_raised |-> out.up.raised,
     d_up |-> out.d_up, d_bytes |-> out.d_bytes, d_fail |-> out.d_fail,
     queued |-> out.queued, last |-> "none",
     auth |-> Count(out.up.net, "401") > 0]

NewId(n, k) == 20 + 4 * n + k

-----------------------------------------------------------------------------
(* Inputs of the runs *)

FI(dl, label, ident, ctype, cvalue) ==
    [directoryLabel |-> dl, label |-> label, id |-> ident,
     checksum_type |-> ctype, checksum_value |-> cvalue]

\* what the repository lists when the run starts
Listings ==
    { <<>>,
      <<FI(<<>>, <<"a", ".", "c", "s", "v">>, 11, "MD5", <<"md5", 1, "UC">>),
        FI(<<"D">>, <<"k", ".", "t", "a", "b">>, 12, "SHA-1", <<"sha1", 9, "lc">>)>>,
      <<FI(<<>>, <<"b", ".", "t", "x", "t">>, 13, "MD5", <<"md5", 2, "lc">>),
        FI(<<>>, <<"a", ".", "t", "a", "b">>, 14, "MD5", <<>>)>> }

\* the paths of the command line
InputChoices == { <<1, 2, 3, 4, 5>>, <<Missing, 6, 2>> }

HasDirectory(paths) ==
    \E i \in 1..Len(paths) : paths[i] # Missing /\ Res[paths[i]].is_dir

\* the values drawn for max_retries: the default and a smaller one
RetryLimits == {1, 3}

Configs ==
    [list_only : BOOLEAN, verify_checksums : BOOLEAN, force_new : BOOLEAN,
     recurse_directories : BOOLEAN, direct_upload : BOOLEAN,
     skip_files : 0..MaxSkip, max_files : 0..MaxLimit,
     fixity_algorithm : {"MD5"}, max_retries : RetryLimits,
     server_url : {"", "https://demo.dataverse.org"},
     api_key : {"", "token"}, dataset_pid : {"", "doi:10.5072/FK2"}]

\* the values validate_configuration requires
RequiredValues(cfg) == {cfg.server_url, cfg.api_key, cfg.dataset_pid}

\* validate_configuration lines 38-49: a required value is empty or None
ConfigurationMissing_Never(cfg) == FALSE

ConfigurationMissing(cfg) ==
    cfg.server_url = "" \/ cfg.api_key = "" \/ cfg.dataset_pid = ""

\* the runs explored: the strategy and the algorithm are the defaults of
\* UploaderConfig (the traditional strategy runs as the fallback), recursion
\* is drawn where a directory is given, verification where files are listed,
\* and a configuration with a required value missing has the other defaults
Runs ==
    {run \in [config : Configs, inputs : InputChoices, remote : Listings] :
        /\ run.config.direct_upload
        /\ "" \in RequiredValues(run.config) => run.config.max_retries = 3
        /\ run.config.max_retries # 3 \/ "" \in RequiredValues(run.config) =>
              /\ run.config.skip_files = 0 /\ run.config.max_files = 0
              /\ ~run.config.list_only /\ ~run.config.verify_checksums
              /\ ~run.config.force_new /\ ~run.config.recurse_directories
        /\ run.config.recurse_directories => HasDirectory(run.inputs)
        /\ run.config.verify_checksums \/ run.config.force_new => run.remote # <<>>}

\* the upload answers drawn in the initial pass
FailNone(cfg) ==
    IF cfg.direct_upload THEN [Nominal EXCEPT !.reg = "fail"]
    ELSE [Nominal EXCEPT !.add = "fail"]

FailRaise(cfg) ==
    IF cfg.direct_upload THEN [Nominal EXCEPT !.urls = "e404", !.open = "fail"]
    ELSE [Nominal EXCEPT !.open = "fail"]

\* the server answers 401 to the first request of the upload
FailAuth(cfg) ==
    IF cfg.direct_upload THEN [Nominal EXCEPT !.urls = "e401"]
    ELSE [Nominal EXCEPT !.add = "e401"]

Scenarios(cfg) ==
    {Nominal, FailNone(cfg), [FailNone(cfg) EXCEPT !.landed = TRUE], FailRaise(cfg),
     FailAuth(cfg)}
    \cup (IF cfg.direct_upload THEN {[Nominal EXCEPT !.urls = "nourl"]} ELSE {})

\* the upload answers drawn in the retry pass; the file may be gone by then
RetryScenarios(cfg) ==
    {Nominal, FailNone(cfg), FailRaise(cfg)}
    \cup (IF cfg.direct_upload THEN {[Nominal EXCEPT !.size = "fail"]} ELSE {})

Env(stat, stat2, sc) == [stat |-> stat, stat2 |-> stat2, sc |-> sc]

\* one environment per file: at most one thing goes wrong
Envs(cfg) ==
    {Env("ok", "ok", sc) : sc \in Scenarios(cfg)}
    \cup {Env("raise", "ok", Nominal), Env("ok", "raise", Nominal)}

RetryEnvs(cfg) ==
    {Env("ok", "ok", sc) : sc \in RetryScenarios(cfg)}
    \cup {Env("ok", "raise", Nominal)}

-----------------------------------------------------------------------------
(* process_requests *)

Idle == [active |-> FALSE]

Init ==
    /\ \E run \in Runs :
         /\ config = run.config
         /\ inputs = run.inputs
         /\ remote = run.remote
    /\ pc = "start"
    /\ stack = <<>>
    /\ total_files = 0 /\ uploaded_files = 0 /\ skipped_files = 0
    /\ failed_files = 0 /\ uploaded_bytes = 0
    /\ failed_uploads = <<>>
    /\ existing_files = <<>> /\ existing_files_by_checksum = <<>>
    /\ attempt = 0 /\ retry_delay = 0 /\ still_failed = <<>> /\ retry_pos = 0
    /\ faults = 0
    /\ disc = <<>>
    /\ calls = NoCalls
    /\ lk = Idle
    /\ ul = Idle
    /\ http = Idle

\* the finally clause of process_requests, lines 185-186: http_client.close()
Finally_Skipped(c) == c

Finally(c) == [c EXCEPT !.close = @ + 1]

\* validate_configuration, lines 36-77 of dataverse.py, and the start of
\* process_requests: the three required values, then the metadata request,
\* then the listing request, whose failure _load_existing_files only logs
Validate ==
    /\ pc = "start"
    /\ IF ConfigurationMissing(config)
       THEN /\ pc' = "aborted"
            /\ calls' = Finally([calls EXCEPT !.validate = @ + 1])
            /\ UNCHANGED <<faults, existing_files, existing_files_by_checksum,
                           stack>>
       ELSE
       \E ans \in {"ok", "meta_fail", "list_fail"} :
         /\ ans # "ok" => faults < MaxFaults
         /\ faults' = IF ans = "ok" THEN faults ELSE faults + 1
         /\ pc' = IF ans = "meta_fail" THEN "aborted" ELSE "initial"
         /\ LET c == [calls EXCEPT
                        !.validate = @ + 1,
                        !.metadata = 1,
                        !.load = IF ans = "meta_fail" THEN 0 ELSE 1,
                        !.load_failed = IF ans = "list_fail" THEN {1} ELSE {}]
            IN calls' = IF ans = "meta_fail" THEN Finally(c) ELSE c
         /\ LET loaded == _load_existing_files(existing_files, remote) IN
            IF ans = "ok"
            THEN /\ existing_files' = loaded.existing_files
                 /\ existing_files_by_checksum' = loaded.existing_files_by_checksum
            ELSE UNCHANGED <<existing_files, existing_files_by_checksum>>
         /\ stack' = IF ans = "meta_fail" THEN <<>>
                     ELSE [i \in 1..Len(inputs) |->
                             [t |-> "res", r |-> inputs[i], parent |-> <<Slash>>]]
    /\ UNCHANGED <<config, inputs, total_files, uploaded_files, skipped_files,
                   failed_files, uploaded_bytes, failed_uploads, attempt,
                   retry_delay, still_failed, retry_pos, disc, remote, lk, ul, http>>

\* process_requests lines 151-155: a path that does not exist is passed over
SkipMissingPath ==
    /\ pc = "initial" /\ stack # <<>>
    /\ Head(stack).t = "res" /\ Head(stack).r = Missing
    /\ stack' = Tail(stack)
    /\ UNCHANGED <<config, pc, inputs, total_files, uploaded_files, skipped_files,
                   failed_files, uploaded_bytes, failed_uploads, existing_files,
                   existing_files_by_checksum, attempt, retry_delay, still_failed,
                   retry_pos, faults, disc, calls, remote, lk, ul, http>>

\* one call of _process_resource in the initial pass
ProcessResource ==
    /\ pc = "initial" /\ stack # <<>>
    /\ Head(stack).t = "res" /\ Head(stack).r # Missing
    /\ LET it == Head(stack)
           n == total_files + 1
           look == get_existing_resource_id(Res[it.r], it.parent, existing_files,
                      existing_files_by_checksum, config.verify_checksums)
           verified == verify_checksum(Res[it.r], look.id, existing_files)
       IN \E env \in Envs(config) :
          LET out == _process_resource(config, it.r, it.parent, n, uploaded_files,
                                       look, verified, NewId(n, 0), env)
          IN /\ faults + out.nfaults <= MaxFaults
             /\ faults' = faults + out.nfaults
             /\ total_files' = n
             /\ uploaded_files' = uploaded_files + out.d_up
             /\ skipped_files' = skipped_files + out.d_skip
             /\ failed_files' = failed_files + out.d_fail
             /\ uploaded_bytes' = uploaded_bytes + out.d_bytes
             /\ failed_uploads' =
                  IF out.queued
                  THEN Append(failed_uploads, [r |-> it.r, parent |-> it.parent, n |-> n])
                  ELSE failed_uploads
             /\ stack' = out.push \o Tail(stack)
             /\ remote' = IF out.up.stored
                          THEN Append(remote, Stored(Res[it.r], it.parent, NewId(n, 0)))
                          ELSE remote
             /\ calls' = Called(calls, out)
             /\ disc' = Append(disc, Discovered(it.r, it.parent, config,
                                                uploaded_files, out))
             /\ existing_files' = Catalogued(existing_files, out.up)
             /\ existing_files_by_checksum' =
                   Catalogued(existing_files_by_checksum, out.up)
    /\ UNCHANGED <<config, pc, inputs, attempt, retry_delay, still_failed,
                   retry_pos, lk, ul, http>>

\* _process_directory lines 317-319: post_process_directory, after the children
PostProcessDirectory ==
    /\ pc = "initial" /\ stack # <<>>
    /\ Head(stack).t = "post"
    /\ stack' = Tail(stack)
    /\ calls' = [calls EXCEPT !.post_process = @ + 1]
    /\ disc' = [n \in 1..Len(disc) |->
                  IF disc[n].res = Head(stack).r
                  THEN [disc[n] EXCEPT !.post = total_files] ELSE disc[n]]
    /\ UNCHANGED <<config, pc, inputs, total_files, uploaded_files, skipped_files,
                   failed_files, uploaded_bytes, failed_uploads, existing_files,
                   existing_files_by_checksum, attempt, retry_delay, still_failed,
                   retry_pos, faults, remote, lk, ul, http>>

max_retry_attempts == 3

\* process_requests lines 174-180: the initial pass is over
EndInitialPass ==
    /\ pc = "initial" /\ stack = <<>>
    /\ IF failed_uploads # <<>> /\ ~config.list_only
       THEN /\ pc' = "retry"
            /\ attempt' = 1
            /\ retry_delay' = 5
            /\ calls' = [calls EXCEPT !.retry_pass = @ + 1,
                                      !.failed_initial = failed_files]
       ELSE /\ pc' = "summary"
            /\ calls' = [calls EXCEPT !.failed_initial = failed_files]
            /\ UNCHANGED <<attempt, retry_delay>>
    /\ UNCHANGED <<config, inputs, stack, total_files, uploaded_files, skipped_files,
                   failed_files, uploaded_bytes, failed_uploads, existing_files,
                   existing_files_by_checksum, still_failed, retry_pos, faults,
                   disc, remote, lk, ul, http>>

\* _retry_failed_uploads lines 199-218: the wait of time.sleep(retry_delay),
\* then the reload of one attempt
RetryAttemptBegin ==
    /\ pc = "retry" /\ retry_pos = 0
    /\ attempt <= max_retry_attempts /\ failed_uploads # <<>>
    /\ \E ans \in {"ok", "fail"} :
         /\ ans # "ok" => faults < MaxFaults
         /\ faults' = IF ans = "ok" THEN faults ELSE faults + 1
         /\ LET loaded == _load_existing_files(existing_files, remote) IN
            IF ans = "ok"
            THEN /\ existing_files' = loaded.existing_files
                 /\ existing_files_by_checksum' = loaded.existing_files_by_checksum
            ELSE UNCHANGED <<existing_files, existing_files_by_checksum>>
         /\ calls' = [calls EXCEPT
                         !.waits = Append(@, [delay |-> retry_delay,
                                              loads |-> calls.load]),
                         !.load = @ + 1,
                         !.load_failed = IF ans = "ok" THEN @
                                         ELSE @ \cup {calls.load + 1}]
    /\ still_failed' = <<>>
    /\ retry_pos' = 1
    /\ UNCHANGED <<config, pc, inputs, stack, total_files, uploaded_files,
                   skipped_files, failed_files, uploaded_bytes, failed_uploads,
                   attempt, retry_delay, disc, remote, lk, ul, http>>

\* a retry that leaves failed_files alone when the file is uploaded
RetryOutcome_NoDecrement(cfg, r, look, new_id, env) ==
    IF look.raised THEN [Outcome EXCEPT !.look = look, !.lookups = 1, !.fate = "abort"]
    ELSE IF look.id # 0
    THEN [Outcome EXCEPT !.look = look, !.lookups = 1, !.fate = "now_exists",
                         !.d_skip = 1, !.d_fail = -1]
    ELSE LET up == upload_file(cfg, new_id, env.sc)
             o2 == [Outcome EXCEPT !.look = look, !.lookups = 1, !.up = up,
                                   !.uploads = 1]
         IN IF up.raised THEN [o2 EXCEPT !.fate = "abort"]
            ELSE IF up.id # 0
            THEN [o2 EXCEPT !.fate = "uploaded", !.d_up = 1, !.d_bytes = r.size,
                            !.ret = up.id]
            ELSE [o2 EXCEPT !.fate = "failed", !.queued = TRUE]

\* what the body of the loop of lines 219-243 does for one queued entry
RetryOutcome(cfg, r, look, new_id, env) ==
    LET o1 == [Outcome EXCEPT !.look = look, !.lookups = 1]
    IN
    IF look.raised THEN [o1 EXCEPT !.fate = "abort"]
    ELSE IF look.id # 0
    THEN [o1 EXCEPT !.fate = "now_exists", !.d_skip = 1, !.d_fail = -1]
    ELSE
    LET up == upload_file(cfg, new_id, env.sc)
        o2 == [o1 EXCEPT !.up = up, !.uploads = 1]
    IN
    IF up.raised THEN [o2 EXCEPT !.fate = "abort"]
    ELSE IF up.id # 0
    THEN IF env.stat2 = "raise"
         THEN [o2 EXCEPT !.fate = "abort", !.d_up = 1, !.nfaults = 1]
         ELSE [o2 EXCEPT !.fate = "uploaded", !.d_up = 1, !.d_bytes = r.size,
                         !.d_fail = -1, !.ret = up.id]
    ELSE [o2 EXCEPT !.fate = "failed", !.queued = TRUE]

RetryOne ==
    /\ pc = "retry" /\ retry_pos \in 1..Len(failed_uploads)
    /\ LET e == failed_uploads[retry_pos]
           look == get_existing_resource_id(Res[e.r], e.parent, existing_files,
                      existing_files_by_checksum, config.verify_checksums)
       IN \E env \in RetryEnvs(config) :
          LET out == RetryOutcome(config, Res[e.r], look, NewId(e.n, attempt), env)
          IN /\ faults + out.nfaults <= MaxFaults
             /\ faults' = faults + out.nfaults
             /\ uploaded_files' = uploaded_files + out.d_up
             /\ skipped_files' = skipped_files + out.d_skip
             /\ failed_files' = failed_files + out.d_fail
             /\ uploaded_bytes' = uploaded_bytes + out.d_bytes
             /\ still_failed' = IF out.queued THEN Append(still_failed, e)
                                ELSE still_failed
             /\ remote' = IF out.up.stored
                          THEN Append(remote, Stored(Res[e.r], e.parent,
                                                     NewId(e.n, attempt)))
                          ELSE remote
             /\ LET c == [Called(calls, out) EXCEPT
                               !.converted = @ + out.d_skip + out.d_up]
                IN calls' = IF out.fate = "abort" THEN Finally(c) ELSE c
             /\ disc' = [disc EXCEPT ![e.n].lookups = @ + out.lookups,
                                     ![e.n].uploads = @ + out.uploads,
                                     ![e.n].last = out.fate]
             /\ pc' = IF out.fate = "abort" THEN "aborted" ELSE pc
             /\ retry_pos' = retry_pos + 1
             /\ existing_files' = Catalogued(existing_files, out.up)
             /\ existing_files_by_checksum' =
                   Catalogued(existing_files_by_checksum, out.up)
    /\ UNCHANGED <<config, inputs, stack, total_files, failed_uploads, attempt,
                   retry_delay, lk, ul, http>>

\* the entries that failed again put behind the queue instead of replacing it
NextQueue_Requeue(queue, still) == queue \o still

\* line 246: self.failed_uploads = still_failed
NextQueue(queue, still) == still

\* a delay that stays what it was
NextDelay_Constant(delay) == delay

\* line 249: retry_delay *= 2
NextDelay(delay) == delay * 2

\* lines 245-249: the attempt is over
RetryAttemptEnd ==
    /\ pc = "retry" /\ retry_pos = Len(failed_uploads) + 1
    /\ failed_uploads' = NextQueue(failed_uploads, still_failed)
    /\ retry_delay' = NextDelay(retry_delay)
    /\ attempt' = attempt + 1
    /\ retry_pos' = 0
    /\ UNCHANGED <<config, pc, inputs, stack, total_files, uploaded_files,
                   skipped_files, failed_files, uploaded_bytes, existing_files,
                   existing_files_by_checksum, still_failed, faults, disc, calls,
                   remote, lk, ul, http>>

\* lines 199-201 and 251-254: no attempt is left, or nothing is queued
RetryFinish ==
    /\ pc = "retry" /\ retry_pos = 0
    /\ attempt > max_retry_attempts \/ failed_uploads = <<>>
    /\ pc' = "summary"
    /\ calls' = [calls EXCEPT !.reported = Names(failed_uploads)]
    /\ UNCHANGED <<config, inputs, stack, total_files, uploaded_files,
                   skipped_files, failed_files, uploaded_bytes, failed_uploads,
                   existing_files, existing_files_by_checksum, attempt,
                   retry_delay, still_failed, retry_pos, faults, disc,
                   remote, lk, ul, http>>

\* _print_summary, and the end of process_requests
PrintSummary ==
    /\ pc = "summary"
    /\ pc' = "done"
    /\ calls' = Finally([calls EXCEPT !.summary = @ + 1])
    /\ UNCHANGED <<config, inputs, stack, total_files, uploaded_files,
                   skipped_files, failed_files, uploaded_bytes, failed_uploads,
                   existing_files, existing_files_by_checksum, attempt,
                   retry_delay, still_failed, retry_pos, faults, disc,
                   remote, lk, ul, http>>

\* the user interrupts the run during the traversal or the retry pass:
\* KeyboardInterrupt is not an Exception, so it passes the except clauses of
\* _process_resource and of process_requests (lines 182-184), the finally
\* clause runs, and cli.py lines 161-163 print one line and exit with 130
Interrupt ==
    /\ pc \in {"initial", "retry"}
    /\ faults < MaxFaults
    /\ faults' = faults + 1
    /\ pc' = "interrupted"
    /\ calls' = Finally(calls)
    /\ UNCHANGED <<config, inputs, stack, total_files, uploaded_files,
                   skipped_files, failed_files, uploaded_bytes, failed_uploads,
                   existing_files, existing_files_by_checksum, attempt,
                   retry_delay, still_failed, retry_pos, disc,
                   remote, lk, ul, http>>

Next ==
    \/ Validate
    \/ SkipMissingPath
    \/ ProcessResource
    \/ PostProcessDirectory
    \/ EndInitialPass
    \/ RetryAttemptBegin
    \/ RetryOne
    \/ RetryAttemptEnd
    \/ RetryFinish
    \/ PrintSummary
    \/ Interrupt

Spec == Init /\ [][Next]_vars

-----------------------------------------------------------------------------
(* The existence lookup on its own: get_existing_resource_id applied to a  *)
(* drawn file, parent path, listing and configuration                       *)

Stems == { <<"k">>, <<"k", "_", "b">>, <<"a", Backslash, "k">> }

Extensions ==
    { tabular_extensions[i] : i \in 1..Len(tabular_extensions) }
    \cup { <<".", "C", "S", "V">>, <<".", "t", "x", "t">>, DotTab }

LookupNames == { stem \o ext : stem \in Stems, ext \in Extensions }

LookupParents == { <<Slash>>, <<Slash, "d">> }

\* the files a drawn listing is made of
RemoteFiles ==
    { FI(<<>>, <<"k", ".", "c", "s", "v">>, 31, "MD5", <<"md5", 2, "lc">>),
      FI(<<>>, <<"k", ".", "t", "a", "b">>, 32, "MD5", <<"md5", 3, "lc">>),
      FI(<<>>, <<"k", "_", "b", ".", "t", "a", "b">>, 33, "MD5", <<"md5", 4, "lc">>),
      FI(<<"d">>, <<"k", ".", "t", "a", "b">>, 34, "MD5", <<>>),
      FI(<<"a">>, <<"k", ".", "t", "a", "b">>, 35, "MD5", <<"md5", 5, "lc">>),
      FI(<<>>, <<"z", ".", "b", "i", "n">>, 36, "MD5", <<"md5", 1, "UC">>),
      FI(<<>>, <<"y", ".", "b", "i", "n">>, 37, "SHA-256", <<"sha256", 1, "lc">>),
      FI(<<"d">>, <<"k", ".", "c", "s", "v">>, 38, "MD5", <<"md5", 1, "lc">>) }

\* the listings of at most n files, each file at most once
RECURSIVE ListingsUpTo(_)
ListingsUpTo(n) ==
    IF n = 0 THEN { <<>> }
    ELSE LET shorter == ListingsUpTo(n - 1) IN
         shorter \cup
         { Append(l, fi) : l \in {x \in shorter : Len(x) = n - 1},
                           fi \in RemoteFiles }

DistinctFiles(l) == \A i, j \in 1..Len(l) : i # j => l[i] # l[j]

LookupListings == { l \in ListingsUpTo(MaxListing) : DistinctFiles(l) }

LookupInputs ==
    { i \in [name : LookupNames, parent : LookupParents, files : LookupListings,
             verify_checksums : BOOLEAN, fixity_algorithm : FixityAlgorithms] :
        ~i.verify_checksums => i.fixity_algorithm = "MD5" }

DefaultConfig ==
    [list_only |-> FALSE, verify_checksums |-> FALSE, force_new |-> FALSE,
     recurse_directories |-> FALSE, direct_upload |-> TRUE,
     skip_files |-> 0, max_files |-> 0, fixity_algorithm |-> "MD5",
     max_retries |-> 3, server_url |-> "https://demo.dataverse.org",
     api_key |-> "token", dataset_pid |-> "doi:10.5072/FK2"]

LookupInit ==
    /\ \E i \in LookupInputs :
         lk = [active |-> TRUE, done |-> FALSE, name |-> i.name,
               parent |-> i.parent, files |-> i.files,
               verify_checksums |-> i.verify_checksums,
               fixity_algorithm |-> i.fixity_algorithm,
               result |-> NotFound]
    /\ config = DefaultConfig
    /\ inputs = <<>>
    /\ remote = <<>>
    /\ pc = "lookup"
    /\ stack = <<>>
    /\ total_files = 0 /\ uploaded_files = 0 /\ skipped_files = 0
    /\ failed_files = 0 /\ uploaded_bytes = 0
    /\ failed_uploads = <<>>
    /\ existing_files = <<>> /\ existing_files_by_checksum = <<>>
    /\ attempt = 0 /\ retry_delay = 0 /\ still_failed = <<>> /\ retry_pos = 0
    /\ faults = 0
    /\ disc = <<>>
    /\ calls = NoCalls
    /\ ul = Idle
    /\ http = Idle

\* the local file of the lookup
LookupFile == File(lk.name, 1, 3)

\* the catalog is loaded from the drawn listing, then the file is looked up
ApplyLookup ==
    /\ pc = "lookup" /\ lk.active /\ ~lk.done
    /\ LET loaded == _load_existing_files(<<>>, lk.files) IN
       /\ existing_files' = loaded.existing_files
       /\ existing_files_by_checksum' = loaded.existing_files_by_checksum
       /\ lk' = [lk EXCEPT
                   !.done = TRUE,
                   !.result = get_existing_resource_id(LookupFile, lk.parent,
                                 loaded.existing_files,
                                 loaded.existing_files_by_checksum,
                                 lk.verify_checksums)]
    /\ UNCHANGED <<config, pc, inputs, stack, total_files, uploaded_files,
                   skipped_files, failed_files, uploaded_bytes, failed_uploads,
                   attempt, retry_delay, still_failed, retry_pos, faults, disc,
                   calls, remote, ul, http>>

LookupNext == ApplyLookup

SpecLookup == LookupInit /\ [][LookupNext]_vars

-----------------------------------------------------------------------------
(* The upload operation on its own: upload_file applied to one file after
   another, each with drawn answers of the file system and the repository *)

\* every combination of answers
UploadAnswers ==
    [size : {"ok", "fail"}, urls : {"url", "nourl", "e404", "e401", "err"},
     open : {"ok", "fail"}, put : {"ok", "err", "e404", "e401"},
     reg : {"ok", "fail", "e404", "e401"}, add : {"ok", "fail", "e401"},
     landed : {FALSE}]

UploadInit ==
    /\ \E d \in BOOLEAN : config = [DefaultConfig EXCEPT !.direct_upload = d]
    /\ ul = [active |-> TRUE, n |-> 0, sc |-> Nominal, result |-> NoUpload,
             after_fallback |-> FALSE]
    /\ lk = Idle
    /\ http = Idle
    /\ inputs = <<>>
    /\ remote = <<>>
    /\ pc = "upload"
    /\ stack = <<>>
    /\ total_files = 0 /\ uploaded_files = 0 /\ skipped_files = 0
    /\ failed_files = 0 /\ uploaded_bytes = 0
    /\ failed_uploads = <<>>
    /\ existing_files = <<>> /\ existing_files_by_checksum = <<>>
    /\ attempt = 0 /\ retry_delay = 0 /\ still_failed = <<>> /\ retry_pos = 0
    /\ faults = 0
    /\ disc = <<>>
    /\ calls = NoCalls

\* the traditional strategy ran in this upload
FellBack(res) == \E i \in 1..Len(res.net) : res.net[i] = "traditional"

\* upload_file for the next file
ApplyUpload ==
    /\ pc = "upload" /\ ul.active /\ ul.n < MaxUploads
    /\ \E sc \in UploadAnswers :
         ul' = [ul EXCEPT
                  !.n = @ + 1,
                  !.sc = sc,
                  !.result = upload_file(config, NewId(ul.n + 1, 0), sc),
                  !.after_fallback = ul.n > 0 /\ FellBack(ul.result)]
    /\ UNCHANGED <<config, pc, inputs, stack, total_files, uploaded_files,
                   skipped_files, failed_files, uploaded_bytes, failed_uploads,
                   existing_files, existing_files_by_checksum, attempt,
                   retry_delay, still_failed, retry_pos, faults, disc, calls,
                   remote, lk, http>>

UploadNext == ApplyUpload

SpecUpload == UploadInit /\ [][UploadNext]_vars

-----------------------------------------------------------------------------
(* The transport client on its own: one method of HTTPClient called with a
   drawn credential, and what httpx answers to each send of the request *)

\* what httpx does with one send: a response with a status, or a transport
\* error
Answers == {"200", "401", "404", "500", "timeout", "connect"}

\* get, post, put and delete are decorated with tenacity's retry and translate
\* the exceptions of httpx; upload_multipart does neither
ApiMethods == {"get", "post", "put", "delete"}

Methods == ApiMethods \cup {"upload_multipart"}

\* a client whose requests never carry the credential
_add_auth_header_Never(headers, api_key) == headers

\* lines 70-82
_add_auth_header(headers, api_key) ==
    IF api_key # "" THEN headers \cup {"X-Dataverse-key"} ELSE headers

\* the headers of the request a method sends: lines 109, 149, 189, 223 and
\* 265-269
RequestHeaders(method, api_key) ==
    IF method = "upload_multipart" THEN {"Content-Type"}
    ELSE _add_auth_header({}, api_key)

\* self._client.<method>(...) followed by response.raise_for_status()
Send(ans) ==
    CASE ans = "200" -> "none"
      [] ans \in {"401", "404", "500"} -> "httpx.HTTPStatusError"
      [] ans = "timeout" -> "httpx.TimeoutException"
      [] OTHER -> "httpx.NetworkError"

\* the except clauses of get, post, put and delete, lines 113-118
Translated(ans) ==
    CASE Send(ans) = "none" -> "none"
      [] Send(ans) = "httpx.HTTPStatusError" ->
            IF ans = "401" THEN "AuthenticationError" ELSE "NetworkError"
      [] OTHER -> "NetworkError"

\* what one execution of the body of a method raises
Body(method, ans) ==
    IF method \in ApiMethods THEN Translated(ans) ELSE Send(ans)

\* retry_if_exception_type((httpx.TimeoutException, httpx.NetworkError))
RetryPredicate(exc) == exc \in {"httpx.TimeoutException", "httpx.NetworkError"}

stop_after_attempt == 3

\* a call of a method: the decorator runs the body again while the exception
\* that left it satisfies the predicate and attempts are left
RECURSIVE Call(_, _, _)
Call(method, answers, k) ==
    LET exc == Body(method, answers[k]) IN
    IF method \in ApiMethods /\ RetryPredicate(exc)
    THEN IF k < stop_after_attempt THEN Call(method, answers, k + 1)
         ELSE [sends |-> k, raised |-> "tenacity.RetryError"]
    ELSE [sends |-> k, raised |-> exc]

HttpInit ==
    /\ http = [active |-> TRUE, done |-> FALSE, method |-> "get",
               api_key |-> "", answers |-> <<>>, headers |-> {},
               result |-> [sends |-> 0, raised |-> "none"]]
    /\ config = DefaultConfig
    /\ lk = Idle
    /\ ul = Idle
    /\ inputs = <<>>
    /\ remote = <<>>
    /\ pc = "http"
    /\ stack = <<>>
    /\ total_files = 0 /\ uploaded_files = 0 /\ skipped_files = 0
    /\ failed_files = 0 /\ uploaded_bytes = 0
    /\ failed_uploads = <<>>
    /\ existing_files = <<>> /\ existing_files_by_checksum = <<>>
    /\ attempt = 0 /\ retry_delay = 0 /\ still_failed = <<>> /\ retry_pos = 0
    /\ faults = 0
    /\ disc = <<>>
    /\ calls = NoCalls

\* one call of a method of the client
ApplyHttp ==
    /\ pc = "http" /\ http.active /\ ~http.done
    /\ \E method \in Methods, api_key \in {"", "token"},
          answers \in [1..stop_after_attempt -> Answers] :
         http' = [http EXCEPT
                    !.done = TRUE,
                    !.method = method,
                    !.api_key = api_key,
                    !.answers = answers,
                    !.headers = RequestHeaders(method, api_key),
                    !.result = Call(method, answers, 1)]
    /\ UNCHANGED <<config, pc, inputs, stack, total_files, uploaded_files,
                   skipped_files, failed_files, uploaded_bytes, failed_uploads,
                   existing_files, existing_files_by_checksum, attempt,
                   retry_delay, still_failed, retry_pos, faults, disc, calls,
                   remote, lk, ul>>

HttpNext == ApplyHttp

SpecHttp == HttpInit /\ [][HttpNext]_vars

-----------------------------------------------------------------------------
(* The catalog on its own: _load_existing_files called again and again, as
   validate_configuration and every retry attempt do, the repository
   answering each time with the listing of that moment *)

\* the files the dataset may list: files come and go between two requests
CatalogFiles == { fi \in RemoteFiles : fi.id \in {31, 34, 36, 38} }

CatalogListings ==
    { l \in LookupListings : \A i \in 1..Len(l) : l[i] \in CatalogFiles }

CatalogInit ==
    /\ existing_files = <<>> /\ existing_files_by_checksum = <<>>
    /\ remote = <<>>
    /\ pc = "catalog"
    /\ calls = NoCalls
    /\ config = DefaultConfig
    /\ lk = Idle
    /\ ul = Idle
    /\ http = Idle
    /\ inputs = <<>>
    /\ stack = <<>>
    /\ total_files = 0 /\ uploaded_files = 0 /\ skipped_files = 0
    /\ failed_files = 0 /\ uploaded_bytes = 0
    /\ failed_uploads = <<>>
    /\ attempt = 0 /\ retry_delay = 0 /\ still_failed = <<>> /\ retry_pos = 0
    /\ faults = 0
    /\ disc = <<>>

\* one call of _load_existing_files: the listing request is answered with
\* the files of the dataset, or with a status other than OK (lines 92-94)
LoadCatalog ==
    /\ pc = "catalog" /\ calls.load < MaxLoads
    /\ \E files \in CatalogListings, ans \in {"ok", "not_ok"} :
         /\ remote' = files
         /\ calls' = [calls EXCEPT
                         !.load = @ + 1,
                         !.load_failed = IF ans = "ok" THEN @
                                         ELSE @ \cup {calls.load + 1}]
         /\ LET loaded == _load_existing_files(existing_files, files) IN
            IF ans = "ok"
            THEN /\ existing_files' = loaded.existing_files
                 /\ existing_files_by_checksum' = loaded.existing_files_by_checksum
            ELSE UNCHANGED <<existing_files, existing_files_by_checksum>>
    /\ UNCHANGED <<config, pc, inputs, stack, total_files, uploaded_files,
                   skipped_files, failed_files, uploaded_bytes, failed_uploads,
                   attempt, retry_delay, still_failed, retry_pos, faults, disc,
                   lk, ul, http>>

CatalogNext == LoadCatalog

SpecCatalog == CatalogInit /\ [][CatalogNext]_vars

-----------------------------------------------------------------------------
(* A second run over a file the first run uploaded: the repository lists the
   file under the directory label and the name the first run sent, or under
   the name its tabular ingest gave it, and the second run loads that listing
   and processes the same file under the same parent path *)

DotTsv == <<".", "t", "s", "v">>

\* the file names of the runs
RerunNames == { stem \o ext : stem \in Stems, ext \in Extensions \cup {DotTsv} }

RerunParents == { <<Slash>>, <<Slash, "d">>, <<Slash, "d", Slash, "a">> }

\* the extensions of the formats the repository ingests as tabular data: the
\* formats of line 157 ("CSV, Excel, SPSS, Stata, SAS, etc."), with the
\* tab-separated files among the rest
IngestedExtensions ==
    { tabular_extensions[i] : i \in 1..Len(tabular_extensions) } \cup {DotTsv}

Ingestable(name) ==
    \E ext \in IngestedExtensions : endswith(lower(name), ext)

\* the name after ingest: the extension replaced by .tab
IngestName(name) ==
    LET dot == CHOOSE i \in 1..Len(name) :
                  name[i] = "." /\ \A j \in (i + 1)..Len(name) : name[j] # "."
    IN SubSeq(name, 1, dot - 1) \o DotTab

RerunInputs ==
    { i \in [name : RerunNames, parent : RerunParents, converted : BOOLEAN,
             rehashed : BOOLEAN, verify_checksums : BOOLEAN,
             fixity_algorithm : FixityAlgorithms] :
        /\ i.converted => Ingestable(i.name)
        /\ i.rehashed => i.converted
        /\ ~i.verify_checksums => i.fixity_algorithm = "MD5" }

RerunInit ==
    /\ \E i \in RerunInputs :
         /\ lk = [active |-> TRUE, done |-> FALSE, name |-> i.name,
                  parent |-> i.parent, converted |-> i.converted,
                  rehashed |-> i.rehashed]
         /\ config = [DefaultConfig EXCEPT
                         !.verify_checksums = i.verify_checksums,
                         !.fixity_algorithm = i.fixity_algorithm]
    /\ inputs = <<>>
    /\ remote = <<>>
    /\ pc = "rerun"
    /\ stack = <<>>
    /\ total_files = 0 /\ uploaded_files = 0 /\ skipped_files = 0
    /\ failed_files = 0 /\ uploaded_bytes = 0
    /\ failed_uploads = <<>>
    /\ existing_files = <<>> /\ existing_files_by_checksum = <<>>
    /\ attempt = 0 /\ retry_delay = 0 /\ still_failed = <<>> /\ retry_pos = 0
    /\ faults = 0
    /\ disc = <<>>
    /\ calls = NoCalls
    /\ ul = Idle
    /\ http = Idle

\* the local file of both runs
RerunFile == File(lk.name, 1, 3)

\* what the repository lists after the first run: the entry of the upload
\* (_register_uploaded_file lines 357-371: directoryLabel, fileName, and the
\* checksum under config.fixity_algorithm), renamed and hashed anew when the
\* file was ingested
FirstRunListing ==
    LET sent == Stored(RerunFile, lk.parent, NewId(1, 0))
        algo == get_hash_algorithm_name(config.fixity_algorithm)
    IN << [sent EXCEPT
             !.label = IF lk.converted THEN IngestName(lk.name) ELSE @,
             !.checksum_type = config.fixity_algorithm,
             !.checksum_value = <<algo, IF lk.rehashed THEN 9 ELSE RerunFile.content,
                                  "lc">>] >>

\* the second run: validate_configuration loads the catalog, then
\* _process_resource processes the file
SecondRun ==
    /\ pc = "rerun" /\ lk.active /\ ~lk.done
    /\ LET files == FirstRunListing
           loaded == _load_existing_files(<<>>, files)
           look == get_existing_resource_id(RerunFile, lk.parent,
                      loaded.existing_files, loaded.existing_files_by_checksum,
                      config.verify_checksums)
           verified == verify_checksum(RerunFile, look.id, loaded.existing_files)
           out == _process_file(config, RerunFile, look, verified, NewId(1, 1),
                                Env("ok", "ok", Nominal))
       IN /\ remote' = IF out.up.stored
                       THEN Append(files, Stored(RerunFile, lk.parent, NewId(1, 1)))
                       ELSE files
          /\ existing_files' = loaded.existing_files
          /\ existing_files_by_checksum' = loaded.existing_files_by_checksum
          /\ total_files' = 1
          /\ uploaded_files' = out.d_up
          /\ skipped_files' = out.d_skip
          /\ failed_files' = out.d_fail
          /\ uploaded_bytes' = out.d_bytes
          /\ calls' = [Called(calls, out) EXCEPT !.validate = 1, !.load = 1]
          /\ lk' = [lk EXCEPT !.done = TRUE]
    /\ UNCHANGED <<config, pc, inputs, stack, failed_uploads, attempt,
                   retry_delay, still_failed, retry_pos, faults, disc, ul, http>>

RerunNext == SecondRun

SpecRerun == RerunInit /\ [][RerunNext]_vars

-----------------------------------------------------------------------------
(* Properties of the orchestrator (specification Spec) *)

EndOfInitialPass == pc = "initial" /\ stack = <<>>

EndOfRun == pc \in {"summary", "done"}

Discoveries == 1..Len(disc)

\* C1: at the end of the initial pass and at the end of the run,
\* totalFiles = uploadedFiles + skippedFiles + failedFiles.
C1_CountersBalance ==
    (EndOfInitialPass \/ EndOfRun) =>
        total_files = uploaded_files + skipped_files + failed_files

\* the remote record with this id holds the hash of this local file
HashesEqual(r, ident, ef) ==
    \E i \in 1..Len(ef) :
        /\ ef[i].val.id = ident
        /\ Len(ef[i].val.checksum_value) = 3
        /\ ef[i].val.checksum_value[1] = AlgoLower(ef[i].val.checksum_type)
        /\ ef[i].val.checksum_value[2] = r.content

C2_Step ==
    (pc = "initial" /\ Len(disc') = Len(disc) + 1
        /\ disc'[Len(disc')].existing # 0) =>
    LET d == disc'[Len(disc')]
        skip == \/ ~config.verify_checksums
                \/ HashesEqual(Res[d.res], d.existing, existing_files)
                \/ ~config.force_new
    IN IF skip
       THEN /\ d.fate = "skipped" /\ d.ret = d.existing
            /\ skipped_files' = skipped_files + 1
            /\ calls'.upload_file = calls.upload_file
            /\ uploaded_files' = uploaded_files /\ failed_files' = failed_files
       ELSE /\ skipped_files' = skipped_files
            /\ IF config.list_only
               THEN d.fate = "listed" /\ calls'.upload_file = calls.upload_file
               ELSE /\ calls'.upload_file = calls.upload_file + 1
                    /\ d.fate \in {"uploaded", "failed", "error"}

C7_ForceNewUploadsExisting ==
    (config.force_new /\ ~config.list_only) =>
        \A n \in Discoveries :
            disc[n].existing # 0 => disc[n].fate # "skipped" /\ disc[n].uploads >= 1

\* C8: in list-only mode no upload, directory-creation or registration call
\* is made and no retry pass runs; uploadedFiles and uploadedBytes stay zero
\* and no upload is counted as failed.
C8_ListOnlyNoSideEffects ==
    config.list_only =>
        /\ calls.upload_file = 0 /\ calls.add = 0 /\ calls.uploadurls = 0
        /\ calls.put = 0 /\ calls.addFiles = 0
        /\ calls.create_directory = 0 /\ calls.post_process = 0
        /\ calls.retry_pass = 0 /\ pc # "retry"
        /\ uploaded_files = 0 /\ uploaded_bytes = 0
        /\ failed_uploads = <<>>
        /\ \A n \in Discoveries : disc[n].fate \notin {"uploaded", "failed"}

C8_Witness ==
    /\ config.list_only /\ pc = "done"
    /\ \E n \in Discoveries : disc[n].fate = "dir"
    /\ \E n \in Discoveries : disc[n].fate = "listed"
    /\ \E n \in Discoveries : disc[n].fate = "skipped"

OnlyFiles == \A n \in Discoveries : ~Res[disc[n].res].is_dir

SkipLimitOutcome ==
    \A n \in Discoveries :
        /\ n <= config.skip_files => disc[n].fate = "skip_policy"
        /\ (config.skip_files < n /\ n <= config.skip_files + config.max_files)
              => disc[n].fate = "uploaded"
        /\ n > config.skip_files + config.max_files
              => /\ disc[n].lookups = 0 /\ disc[n].uploads = 0
                 /\ disc[n].fate = "stopped"

SkipLimitRun ==
    /\ EndOfInitialPass \/ EndOfRun
    /\ ~config.list_only /\ config.max_files # 0
    /\ OnlyFiles
    /\ config.skip_files + config.max_files <= Len(disc)

C10_NoCallsAfterLimit ==
    /\ pc \in {"initial", "retry", "summary", "done", "aborted"}
          => total_files = Len(disc)
    /\ \A n \in Discoveries :
          disc[n].after_limit =>
             /\ disc[n].lookups = 0 /\ disc[n].uploads = 0
             /\ disc[n].fate \in {"stopped", "skip_policy"}
             /\ \A i \in 1..Len(failed_uploads) : failed_uploads[i].n # n

C10_Witness ==
    /\ pc = "done" /\ calls.retry_pass = 1
    /\ uploaded_files > config.max_files
    /\ \E n \in Discoveries : disc[n].after_limit /\ disc[n].fate = "stopped"

-----------------------------------------------------------------------------
(* Properties of the existence lookup (specification SpecLookup) *)

LookedUp == lk.active /\ lk.done

\* parentPath/name as the repository names it
ExpectedPath ==
    IF lk.parent = <<Slash>> THEN lk.name ELSE Tail(lk.parent) \o <<Slash>> \o lk.name

TabularSet == { tabular_extensions[i] : i \in 1..Len(tabular_extensions) }

TabularName ==
    \E stem \in Stems, ext \in Extensions :
        lk.name = stem \o ext /\ lower(ext) \in TabularSet

\* the name with its extension replaced by .tab, under the parent path
ExpectedTabPath ==
    LET stem == CHOOSE st \in Stems :
                    \E ext \in Extensions : lk.name = st \o ext
    IN IF lk.parent = <<Slash>> THEN stem \o DotTab
       ELSE Tail(lk.parent) \o <<Slash>> \o stem \o DotTab

\* the id the listing gives for a path, 0 when it lists none
RemoteIdAt(path) ==
    LET hits == {i \in 1..Len(lk.files) :
                    lk.files[i].directoryLabel \o
                    (IF lk.files[i].directoryLabel = <<>> THEN <<>> ELSE <<Slash>>)
                    \o lk.files[i].label = path}
    IN IF hits = {} THEN 0 ELSE lk.files[CHOOSE i \in hits : TRUE].id

\* the ids of the listed files whose checksum is the MD5 of the local file
HashIds ==
    {lk.files[i].id : i \in {j \in 1..Len(lk.files) :
        /\ Len(lk.files[j].checksum_value) = 3
        /\ lk.files[j].checksum_value[1] = "md5"
        /\ lk.files[j].checksum_value[2] = LookupFile.content}}

ExactId == RemoteIdAt(ExpectedPath)

TabId == IF TabularName THEN RemoteIdAt(ExpectedTabPath) ELSE 0

NormTabId ==
    IF TabularName THEN RemoteIdAt(replace(ExpectedTabPath, Backslash, Slash)) ELSE 0

\* C3: the lookup answers with the exact-path record when there is one,
\* else with the .tab record, else (verification on) with a record of the
\* same content hash, else with nothing; an exact-path record wins over a
\* different record with the file's hash.
C3_LookupOrder ==
    LookedUp =>
        /\ ExactId # 0 => lk.result.id = ExactId /\ lk.result.how = "name"
        /\ (ExactId = 0 /\ TabId # 0) =>
              lk.result.id = TabId /\ lk.result.how = "tab"
        /\ lk.result.how = "hash" =>
              /\ ExactId = 0 /\ TabId = 0 /\ NormTabId = 0
              /\ lk.verify_checksums /\ lk.result.id \in HashIds
        /\ (ExactId = 0 /\ TabId = 0 /\ NormTabId = 0) =>
              (lk.result.id # 0 <=> (lk.verify_checksums /\ HashIds # {}))

C3_Witness ==
    /\ LookedUp /\ lk.verify_checksums
    /\ ExactId # 0 /\ HashIds # {} /\ ExactId \notin HashIds
    /\ lk.result.id = ExactId

\* C4: for a name with a tabular extension and no exact-path record, the
\* conversion heuristic matches the record at the path with the extension
\* replaced by .tab and no other record.
C4_TabMatchesOnlyReplacedPath ==
    (LookedUp /\ TabularName /\ ExactId = 0
        /\ lk.result.how \in {"tab", "tabnorm"}) =>
            TabId # 0 /\ lk.result.id = TabId

\* C5: with verification off no local hash is computed and the checksum
\* index decides nothing: a file that matches no path is not found, also
\* when a listed file has its content.
C5_NoHashWithoutVerification ==
    (LookedUp /\ ~lk.verify_checksums) =>
        /\ lk.result.hashed = "" /\ lk.result.how # "hash"
        /\ ~lk.result.raised
        /\ (ExactId = 0 /\ TabId = 0 /\ NormTabId = 0) => lk.result.id = 0

C5_Witness ==
    /\ LookedUp /\ ~lk.verify_checksums
    /\ HashIds # {} /\ ExactId = 0 /\ TabId = 0 /\ NormTabId = 0
    /\ lk.result.id = 0

\* C6: the hash looked up in the checksum index is computed under the
\* configured fixity algorithm.
C6_HashUnderConfiguredAlgorithm ==
    (LookedUp /\ lk.result.hashed # "") =>
        lk.result.hashed = get_hash_algorithm_name(lk.fixity_algorithm)

-----------------------------------------------------------------------------
(* Properties of the traversal and of the retry pass (specification Spec) *)

\* the n-th discovery is the directory whose listing holds the m-th
ChildOf(m, n) ==
    /\ Res[disc[n].res].is_dir
    /\ disc[m].res \in Res[disc[n].res].entries

\* C11: total_files counts every discovered resource once; the resources
\* skipped by policy are those numbered up to skip_files; with recursion on,
\* every visible entry of a counted directory is counted after the directory.
C11_PreOrderCounter ==
    /\ pc \in {"initial", "retry", "summary", "done"} => total_files = Len(disc)
    /\ \A n \in Discoveries : disc[n].fate = "skip_policy" <=> n <= config.skip_files
    /\ \A m \in Discoveries : \A n \in Discoveries : ChildOf(m, n) => n < m
    /\ (EndOfInitialPass /\ config.recurse_directories) =>
          \A n \in Discoveries :
              Res[disc[n].res].is_dir =>
                  \A i \in 1..Len(list_resources(disc[n].res)) :
                      \E m \in Discoveries :
                          m > n /\ disc[m].res = list_resources(disc[n].res)[i]

\* the entries of the retry queue that stand for the n-th discovery
QueuedFor(n) == {i \in 1..Len(failed_uploads) : failed_uploads[i].n = n}

\* C12: in the initial pass a file whose upload call returned None adds one
\* to failed_files and is queued once; a file whose upload call returned an
\* id adds one to uploaded_files and its size to uploaded_bytes and is not
\* queued.
C12_UploadOutcomeCounted ==
    \A n \in Discoveries :
        (disc[n].up_called /\ ~disc[n].up_raised) =>
            IF disc[n].up_id = 0
            THEN /\ disc[n].d_fail = 1 /\ disc[n].d_up = 0 /\ disc[n].d_bytes = 0
                 /\ disc[n].queued
                 /\ pc = "initial" =>
                       /\ Cardinality(QueuedFor(n)) = 1
                       /\ \A i \in QueuedFor(n) : failed_uploads[i].r = disc[n].res
            ELSE /\ disc[n].d_up = 1
                 /\ disc[n].d_bytes = Res[disc[n].res].size
                 /\ ~disc[n].queued
                 /\ QueuedFor(n) = {}

\* C13: the retry pass starts only when the initial pass has ended with a
\* non-empty queue in a run that is not list-only, an attempt runs only on
\* a non-empty queue, and no more attempts run than max_retries allows.
C13_RetryWithinConfiguredLimit ==
    /\ calls.retry_pass > 0 =>
          /\ ~config.list_only /\ stack = <<>>
          /\ pc \in {"retry", "summary", "done", "aborted"}
          /\ \E n \in Discoveries : disc[n].queued
    /\ calls.retry_pass <= 1
    /\ (pc = "retry" /\ retry_pos > 0) =>
          /\ failed_uploads # <<>>
          /\ attempt <= config.max_retries

\* the n-th discovery was queued and its upload returned None in the
\* initial pass and in each of the three retry attempts
AlwaysFailed(n) ==
    /\ disc[n].queued
    /\ disc[n].uploads = 1 + max_retry_attempts
    /\ disc[n].last = "failed"

\* C14: a queued resource whose upload returned None in the initial pass
\* and in all three attempts is in the failed queue when the run ends, and
\* failed_files is then its value after the initial pass minus the number
\* of queued resources that became skipped or uploaded.
C14_RetryExhaustion ==
    EndOfRun =>
        /\ \A n \in Discoveries : AlwaysFailed(n) => QueuedFor(n) # {}
        /\ failed_files = calls.failed_initial - calls.converted
        /\ Len(failed_uploads) <= failed_files

C14_Witness ==
    /\ pc = "done" /\ calls.retry_pass = 1
    /\ \E n \in Discoveries : AlwaysFailed(n) /\ QueuedFor(n) # {}
    /\ failed_files = calls.failed_initial /\ failed_files >= 1

C15_Step ==
    pc \in {"retry", "summary", "done", "aborted"} =>
        /\ Names(failed_uploads') \subseteq Names(failed_uploads)
        /\ Len(failed_uploads') <= Len(failed_uploads)
        /\ Names(still_failed') \subseteq Names(failed_uploads)
        /\ \A n \in Names(failed_uploads') : disc[n].queued

\* C15: from the end of the initial pass on, no step adds an entry to the
\* failed queue: the queue after a step names a subset of the resources it
\* named before, all of them queued by the initial pass.
C15_QueueOnlyShrinks == [][C15_Step]_vars

C15_Witness ==
    /\ pc = "done" /\ calls.retry_pass = 1 /\ attempt > 1
    /\ failed_uploads = <<>>
    /\ \E n \in Discoveries : disc[n].queued /\ disc[n].last = "uploaded"

C16_Step ==
    /\ total_files' >= total_files
    /\ uploaded_files' >= uploaded_files
    /\ skipped_files' >= skipped_files
    /\ uploaded_bytes' >= uploaded_bytes
    /\ pc = "retry" => failed_files' <= failed_files
    /\ failed_files' < failed_files =>
          /\ pc = "retry" /\ retry_pos \in 1..Len(failed_uploads)
          /\ failed_files' = failed_files - 1
          /\ \/ skipped_files' = skipped_files + 1 /\ uploaded_files' = uploaded_files
             \/ uploaded_files' = uploaded_files + 1 /\ skipped_files' = skipped_files

\* C16: no step lowers total_files, uploaded_files, skipped_files or
\* uploaded_bytes; no step of the retry pass raises failed_files; the only
\* decrement is failed_files - 1 in the retry step that turns a queued
\* resource into a skipped or an uploaded one.
C16_CountersMonotone == [][C16_Step]_vars

C16_Witness ==
    /\ pc = "done" /\ calls.retry_pass = 1
    /\ failed_files = calls.failed_initial - 1
    /\ skipped_files > 0 /\ uploaded_files > 0
    /\ \E n \in Discoveries : disc[n].last = "now_exists"

\* the n-th discovery was counted as failed and no retry took it back
EndsFailed(n) ==
    /\ disc[n].d_fail = 1
    /\ disc[n].last \notin {"uploaded", "now_exists"}

\* C17: every resource that ends the run counted as failed is named in the
\* report printed at the end of the run.
C17_FailuresReported ==
    pc = "done" => \A n \in Discoveries : EndsFailed(n) => n \in calls.reported

\* C20: an error of a local resource or of one upload never ends the run:
\* the run stops early only before the first resource is processed, and a
\* resource whose processing raised is counted as failed once.
C20_FileErrorsNeverAbort ==
    /\ pc = "aborted" => disc = <<>> /\ calls.retry_pass = 0
    /\ \A n \in Discoveries : disc[n].fate = "error" => disc[n].d_fail = 1

-----------------------------------------------------------------------------
(* Properties of the upload operation (specification SpecUpload) *)

Uploaded == ul.active /\ ul.n > 0

\* a step of the direct upload that was reached answered not-found, or the
\* destination request gave no url
Unsupported(sc) ==
    \/ sc.urls \in {"nourl", "e404"}
    \/ /\ sc.urls = "url" /\ sc.open = "ok"
       /\ \/ sc.put = "e404"
          \/ sc.put = "ok" /\ sc.reg = "e404"

\* C18: under the direct strategy, when the destination request gives no
\* url or a step of the direct upload answers not-found, the traditional
\* upload runs for the file and its result is returned; the strategy of the
\* configuration stays and the next file starts with the destination request.
C18_FallbackOnUnsupported ==
    (Uploaded /\ config.direct_upload /\ ul.sc.size = "ok") =>
        /\ Unsupported(ul.sc) =>
              /\ FellBack(ul.result)
              /\ ul.result.id = _upload_file_traditional(NewId(ul.n, 0), ul.sc).id
        /\ ul.result.net # <<>> /\ ul.result.net[1] = "uploadurls"

\* C19: the upload operation never raises: whatever fails, it returns None.
C19_UploadNeverRaises ==
    Uploaded => ~ul.result.raised

-----------------------------------------------------------------------------
(* Properties of failure handling (specification Spec) *)

\* C21: a request answered 401 is fatal: the run is aborted, and the upload
\* that met it is not taken as a failure of the one file that is queued for
\* the retry pass
C21_AuthFailureAborts ==
    \A n \in Discoveries :
        disc[n].auth => pc = "aborted" /\ ~disc[n].queued

\* C22: when the initial load of the catalog fails the run is aborted before
\* the traversal; it never goes on with an empty or partial catalog
C22_CatalogFailureAborts ==
    1 \in calls.load_failed => pc = "aborted" /\ disc = <<>>

\* the requests sent to the repository so far
Requests ==
    calls.metadata + calls.load + calls.add + calls.uploadurls + calls.put
    + calls.addFiles

\* the calls made to the adapter for resources so far
AdapterCalls == calls.lookup + calls.create_directory + calls.upload_file

NothingCounted ==
    /\ total_files = 0 /\ uploaded_files = 0 /\ skipped_files = 0
    /\ failed_files = 0 /\ uploaded_bytes = 0

\* C23: the configuration is validated exactly once per run, before the
\* traversal; when the server URL, the credential or the dataset identifier
\* is missing the run is aborted before any request is sent and before any
\* counter changes
C23_ValidatedOnceBeforeTraversal ==
    /\ calls.validate = (IF pc = "start" THEN 0 ELSE 1)
    /\ "" \in RequiredValues(config) =>
          /\ pc \in {"start", "aborted"}
          /\ Requests = 0 /\ AdapterCalls = 0
          /\ NothingCounted /\ disc = <<>>

C23_Witness ==
    /\ pc = "aborted" /\ config.api_key = "" /\ config.server_url # ""
    /\ calls.validate = 1 /\ Requests = 0

\* process_requests has returned or raised
Exited == pc \in {"done", "aborted", "interrupted"}

C27_Step == calls.close > 0 => Requests' = Requests

\* C27: on every exit path of a run (normal end, abort, error in the retry
\* pass, interruption) the transport client has been closed, and no request
\* is sent once it is closed
C27_ClientClosedOnExit ==
    [](Exited => calls.close = 1) /\ [][C27_Step]_vars

C27_Witness ==
    /\ pc = "interrupted" /\ calls.close = 1 /\ calls.put > 0

\* C29: when the user interrupts the run no further resource is processed,
\* the retry pass is not executed, and the statistics accumulated so far are
\* still emitted
C29_InterruptStillReports ==
    pc = "interrupted" => calls.summary = 1

-----------------------------------------------------------------------------
(* Properties of the file handles (specification SpecUpload) *)

\* the input streams an upload opened and did not close
OpenHandles(res) == Count(res.net, "open") - Count(res.net, "close")

\* C28: every file handle opened for an upload is closed by the time the
\* upload operation returns or raises, whichever strategy ran and however it
\* ended
C28_HandlesClosed ==
    Uploaded => OpenHandles(ul.result) = 0

-----------------------------------------------------------------------------
(* Properties of the transport client (specification SpecHttp) *)

HttpCalled == http.active /\ http.done

Transient(ans) == ans \in {"timeout", "connect"}

\* the number of sends when a transient failure is re-sent up to three
\* attempts in total and nothing else is
RECURSIVE SendsExpected(_, _)
SendsExpected(answers, k) ==
    IF Transient(answers[k]) /\ k < 3 THEN SendsExpected(answers, k + 1) ELSE k

\* C24: a request that fails with a connection error or a timeout is sent
\* again, up to three attempts in total; a response with an HTTP error status
\* is never sent again
C24_TransientFailuresResent ==
    HttpCalled /\ http.method \in ApiMethods =>
        http.result.sends = SendsExpected(http.answers, 1)

\* the answer to the last send of the call
LastAnswer == http.answers[http.result.sends]

\* C25: every call, the streaming PUT included, surfaces a 401 as an
\* authentication failure and any other 4xx/5xx or transient failure as a
\* network failure
C25_ErrorsClassified ==
    HttpCalled =>
        http.result.raised =
            CASE LastAnswer = "200" -> "none"
              [] LastAnswer = "401" -> "AuthenticationError"
              [] OTHER -> "NetworkError"

\* C26: with a credential configured, every request to the repository API
\* carries the credential header; the PUT to the pre-signed destination
\* never carries it
C26_CredentialHeader ==
    HttpCalled =>
        /\ http.method \in ApiMethods /\ http.api_key # "" =>
              "X-Dataverse-key" \in http.headers
        /\ http.method = "upload_multipart" =>
              "X-Dataverse-key" \notin http.headers

C26_Witness ==
    /\ HttpCalled /\ http.api_key = "token"
    /\ http.method = "upload_multipart" /\ http.headers = {"Content-Type"}

-----------------------------------------------------------------------------
(* Properties of the catalog (specification SpecCatalog) *)

\* C30: after the initial load and after every reload the path index and
\* the checksum index describe the same listing: every record of the
\* checksum index is in the path index with the same id and checksum, and
\* every record of the path index that has a checksum has that checksum in
\* the checksum index
C30_IndexesConsistent ==
    /\ \A i \in 1..Len(existing_files_by_checksum) :
          \E j \in 1..Len(existing_files) :
             /\ existing_files[j].val.id = existing_files_by_checksum[i].val.id
             /\ existing_files[j].val.checksum_value =
                   existing_files_by_checksum[i].key
    /\ \A j \in 1..Len(existing_files) :
          existing_files[j].val.checksum_value # <<>> =>
             HasKey(existing_files_by_checksum,
                    existing_files[j].val.checksum_value)

-----------------------------------------------------------------------------
(* Properties of the retry pass and of the catalog during a run
   (specification Spec) *)

\* the changes one step makes to failed_files, skipped_files, uploaded_files
\* and uploaded_bytes
CounterDeltas ==
    <<failed_files' - failed_files, skipped_files' - skipped_files,
      uploaded_files' - uploaded_files, uploaded_bytes' - uploaded_bytes>>

\* C31: in a retry attempt each queued resource is re-checked first.  Found
\* remotely: no upload call, failed_files - 1, skipped_files + 1, and it leaves
\* the queue.  Not found: one upload call, and either it succeeded
\* (failed_files - 1, uploaded_files + 1, uploaded_bytes + size, it leaves the
\* queue) or it failed (it stays queued for the next attempt, no counter moves)
C31_Step ==
    (pc = "retry" /\ retry_pos \in 1..Len(failed_uploads)
       /\ retry_pos' = retry_pos + 1) =>
    LET e == failed_uploads[retry_pos]
        look == get_existing_resource_id(Res[e.r], e.parent, existing_files,
                   existing_files_by_checksum, config.verify_checksums)
        ups == calls'.upload_file - calls.upload_file
        leaves == still_failed' = still_failed
        stays == still_failed' = Append(still_failed, e) /\ pc' = "retry"
    IN IF look.id # 0
       THEN ups = 0 /\ CounterDeltas = <<-1, 1, 0, 0>> /\ leaves
       ELSE /\ ups = 1
            /\ \/ CounterDeltas = <<-1, 0, 1, Res[e.r].size>> /\ leaves
               \/ CounterDeltas = <<0, 0, 0, 0>> /\ stays

C31_RetryAttemptOutcomes == [][C31_Step]_vars

\* C32: the delay waited before retry attempt k is 5 * 2^(k-1) seconds (5, 10,
\* 20), there are at most three waits, the wait of an attempt comes before
\* the reload of that attempt (k loads were made before wait k, and every wait
\* is followed by one reload), and no resource has more upload calls than the
\* initial pass and the attempts whose wait is over allow
C32_BackoffDelays ==
    /\ Len(calls.waits) <= max_retry_attempts
    /\ \A k \in 1..Len(calls.waits) :
          /\ calls.waits[k].delay = 5 * 2^(k - 1)
          /\ calls.waits[k].loads = k
    /\ calls.retry_pass = 1 => calls.load = 1 + Len(calls.waits)
    /\ pc = "retry" =>
          /\ retry_delay = 5 * 2^(attempt - 1)
          /\ Len(calls.waits) = IF retry_pos = 0 THEN attempt - 1 ELSE attempt
    /\ \A n \in Discoveries : disc[n].uploads <= 1 + Len(calls.waits)

C32_Witness ==
    /\ pc = "done"
    /\ Len(calls.waits) = 3
    /\ calls.waits[3].delay = 20
    /\ \E n \in Discoveries : disc[n].uploads = 4

\* the lookups and the upload calls made so far for discovery n of a history
LookupsOf(history, n) == IF n <= Len(history) THEN history[n].lookups ELSE 0

UploadsOf(history, n) == IF n <= Len(history) THEN history[n].uploads ELSE 0

\* C33: a step that calls upload_file calls it once, for one resource, makes
\* the existence lookup for that same resource in the same step, and does not
\* load the catalog in between; no step makes an upload call for a resource
\* without a lookup for it, and no step makes two upload calls
C33_Step ==
    /\ calls'.upload_file > calls.upload_file =>
          /\ calls'.upload_file = calls.upload_file + 1
          /\ calls'.load = calls.load
          /\ \E n \in 1..Len(disc') :
                /\ UploadsOf(disc', n) = UploadsOf(disc, n) + 1
                /\ LookupsOf(disc', n) = LookupsOf(disc, n) + 1
                /\ \A m \in 1..Len(disc') \ {n} :
                      UploadsOf(disc', m) = UploadsOf(disc, m)
    /\ \A n \in 1..Len(disc') :
          /\ UploadsOf(disc', n) - UploadsOf(disc, n) \in {0, 1}
          /\ UploadsOf(disc', n) - UploadsOf(disc, n)
                <= LookupsOf(disc', n) - LookupsOf(disc, n)

C33_LookupBeforeUpload == [][C33_Step]_vars

C33_Witness ==
    /\ pc = "retry"
    /\ \E n \in Discoveries : disc[n].uploads = 2 /\ disc[n].lookups = 2
    /\ calls.load = 2

\* the ids the path index of the catalog holds
CataloguedIds == {existing_files[i].val.id : i \in 1..Len(existing_files)}

\* C34: only a load or reload changes the catalog: a step that loads nothing
\* (a file uploaded, skipped, failed, a directory, the end of a pass or of an
\* attempt) leaves both indexes as they were
C34_Step ==
    calls'.load = calls.load =>
        /\ existing_files' = existing_files
        /\ existing_files_by_checksum' = existing_files_by_checksum

\* so during the initial pass the catalog never holds a file this run uploaded
UploadsUncatalogued ==
    pc = "initial" =>
        \A n \in Discoveries :
            disc[n].up_id # 0 => disc[n].up_id \notin CataloguedIds

C34_CatalogChangedByLoadOnly == [][C34_Step]_vars /\ []UploadsUncatalogued

\* two files were uploaded in the initial pass, the repository has stored
\* both, and the catalog holds neither
C34_Witness ==
    /\ pc = "initial"
    /\ \E n, m \in Discoveries :
          /\ n < m
          /\ disc[n].fate = "uploaded" /\ disc[m].fate = "uploaded"
          /\ {disc[n].up_id, disc[m].up_id} \cap CataloguedIds = {}
          /\ \E i, j \in 1..Len(remote) :
                remote[i].id = disc[n].up_id /\ remote[j].id = disc[m].up_id

\* discovery m is a child, or a child of a child, of directory n
Descendant(m, n) ==
    ChildOf(m, n) \/ \E k \in Discoveries : ChildOf(m, k) /\ ChildOf(k, n)

\* the entries of the directory of discovery n whose names do not start
\* with "."
VisibleEntries(n) ==
    {c \in Res[disc[n].res].entries : Head(Res[c].name) # "."}

\* a parent path extended by a directory name
ExtendedPath(parent_path, name) ==
    IF parent_path = <<Slash>> THEN <<Slash>> \o name
    ELSE parent_path \o <<Slash>> \o name

C36_LimitNeverExceeded ==
    config.max_files # 0 => uploaded_files <= config.max_files

-----------------------------------------------------------------------------
(* Properties of the catalog after a reload (specification SpecCatalog) *)

\* the last load was answered with the listing
LastLoadSucceeded == calls.load > 0 /\ calls.load \notin calls.load_failed

\* C37: after a load that succeeded the catalog answers from the latest
\* listing only: whatever file name and parent path is looked up by path (the
\* exact path or the .tab path), a record that is found is a record of the
\* latest listing
C37_LookupFromLatestListing ==
    LastLoadSucceeded =>
        \A name \in LookupNames : \A parent \in LookupParents :
            LET look == get_existing_resource_id(File(name, 1, 3), parent,
                           existing_files, existing_files_by_checksum, FALSE)
            IN look.id # 0 => \E i \in 1..Len(remote) : remote[i].id = look.id

-----------------------------------------------------------------------------
(* Properties of the counters of one file (specification Spec) *)

\* how often the initial pass counted discovery n in uploaded_files,
\* skipped_files and failed_files
TimesCounted(n) ==
    disc[n].d_up + disc[n].d_fail
    + (IF disc[n].fate \in {"skipped", "skip_policy"} THEN 1 ELSE 0)

\* C38: every discovered file is counted in at most one of uploaded_files,
\* skipped_files and failed_files, and a file counted as uploaded or skipped
\* in the initial pass has no further upload call and is never queued
C38_CountedInOneCounter ==
    \A n \in Discoveries :
        /\ TimesCounted(n) <= 1
        /\ (disc[n].d_up = 1 \/ disc[n].fate \in {"skipped", "skip_policy"}) =>
              /\ disc[n].uploads <= 1
              /\ ~disc[n].queued
              /\ QueuedFor(n) = {}

\* the discoveries whose processing raised an error in the initial pass
RaisedInInitialPass == {n \in Discoveries : disc[n].fate = "error"}

\* the initial pass or a retry attempt has just ended, or the retry pass is over
AtAttemptBoundary ==
    \/ EndOfInitialPass
    \/ pc = "retry" /\ retry_pos = 0
    \/ pc \in {"summary", "done"}

-----------------------------------------------------------------------------
(* Properties of a second run (specification SpecRerun) *)

\* C40: when the repository lists the file the first run uploaded under the
\* directory label and name that were sent, or under its .tab name, the
\* second run makes no upload call and counts the file as skipped; and the
\* path the lookup uses for (parent_path, name) is the path the upload of
\* (parent_path, name) is catalogued under
C40_RerunIdempotent ==
    (pc = "rerun" /\ lk.done) =>
        /\ calls.upload_file = 0
        /\ skipped_files = 1 /\ uploaded_files = 0 /\ failed_files = 0
        /\ ~lk.converted =>
              \E i \in 1..Len(existing_files) :
                  existing_files[i].key = RemotePath(lk.parent, lk.name)

=============================================================================
